---- MODULE Spec2Model ----
(***************************************************************************)
(* Model of the chat relay in src/server.js: origin gatekeeping, the       *)
(* in-memory session registry, the message router and the persistence      *)
(* scheduler (per-session inactivity timer, periodic sweep, manual save,   *)
(* close, agent disconnect) with remote-then-file persistence.             *)
(*                                                                         *)
(* Time is counted in minutes.  Every socket.io handler is one action up   *)
(* to its first await; the rest of an async handler is the continuation of *)
(* the save it awaits (procs).  Of a chat's customer fields only userId    *)
(* and userName are kept, of a message its id, content and sender; the     *)
(* time stamps and the typing pass-through events are not modelled.        *)
(* Socket ids, chat ids and message ids are numbered in the order they are *)
(* issued.                                                                 *)
(***************************************************************************)
EXTENDS Integers, Sequences, FiniteSets, TLC

VARIABLES
    now,              \* Date.now(), in minutes
    nextSweep,        \* when the setInterval callback is due next
    sockSeq,          \* number of connections accepted so far (socket.id)
    chatSeq,          \* number of chat ids generated so far
    msgSeq,           \* number of message ids generated so far
    apiConfigured,    \* process.env.CHAT_API_URL is set
    socketOrigins,    \* Map socket.id -> origin
    connectedAgents,  \* Map socket.id -> agent entry
    chatObj,          \* the chat objects ever created, by chatroom_id
    activeChats,      \* keys of the activeChats Map (it maps c to chatObj[c])
    chatLastActivity, \* Map chatId -> time
    chatSaveTimers,   \* Map chatId -> timer handle
    timers,           \* setTimeout timers that are pending
    procs,            \* async handlers suspended in saveChatToDatabase
    out,              \* what the last step emitted
    joined,           \* history: agent_joined emissions per chat
    attempts,         \* history: auto-save attempts per chat since its last activity update
    events,           \* history: number of client events handled so far
    returned          \* what the saveChatToDatabase calls that ended in the last step returned

vars == <<now, nextSweep, sockSeq, chatSeq, msgSeq, apiConfigured, socketOrigins,
          connectedAgents, chatObj, activeChats, chatLastActivity, chatSaveTimers,
          timers, procs, out, joined, attempts, events, returned>>

(***************************************************************************)
(* Bounds of the model.  A run takes at most MaxEvents client events and   *)
(* MaxTime minutes.  The last event but one is taken in the first          *)
(* EarlyTime minutes and the last one in the first LastTime minutes, and   *)
(* a run is followed no further in time than the events it took allow.     *)
(***************************************************************************)
MaxSockets == 2
MaxChats == 1
MaxMsgs == 2
MaxProcs == 2
MaxTime == 11
EarlyTime == 5
MaxEvents == 6
LastTime == 0

(***************************************************************************)
(* Program constants, in minutes.                                          *)
(***************************************************************************)
AUTOSAVE_INTERVAL == 5
INACTIVITY_SAVE_DELAY == 2

(***************************************************************************)
(* JavaScript values.                                                      *)
(***************************************************************************)
Undefined == "undefined"
Null == "null"
Truthy(v) == v \notin {Undefined, Null, ""}
\* a || b
OrElse(a, b) == IF Truthy(a) THEN a ELSE b

\* Strings that are inspected by prefix are sequences of characters; the
\* falsy origin (no origin and no referer header) is the empty one.
NoOrigin == <<>>
AGENT_ORIGINS == { <<"f", "a">> }
Origins == { NoOrigin, <<"f">>, <<"f", "a", "x">> }

\* origin.startsWith(prefix)
StartsWith(s, prefix) ==
    /\ Len(s) >= Len(prefix)
    /\ SubSeq(s, 1, Len(prefix)) = prefix

\* the prefix test the wrong way round: agentOrigin.startsWith(origin)
IsAgentOrigin_PrefixSwapped(origin) ==
    \E agentOrigin \in AGENT_ORIGINS : origin # NoOrigin /\ StartsWith(agentOrigin, origin)

\* AGENT_ORIGINS.some((agentOrigin) => origin && origin.startsWith(agentOrigin))
IsAgentOrigin(origin) ==
    \E agentOrigin \in AGENT_ORIGINS : origin # NoOrigin /\ StartsWith(origin, agentOrigin)

Sockets == 1..MaxSockets
ChatIds == 1..MaxChats
AgentNames == { Undefined, "Ann", "Bob" }
JoinNames == { Undefined, "Ann" }
UserNames == { "", "Bo" }
Senders == { Undefined, "agent" }

\* generateShortId(prefix): time stamp plus random part, taken as never colliding;
\* the n-th id generated for a prefix is n.
generateShortId(seq) == seq + 1

(***************************************************************************)
(* Emissions.                                                              *)
(***************************************************************************)
Emit(ev, scope, sock, chat, ok) ==
    [ev |-> ev, scope |-> scope, sock |-> sock, chat |-> chat, ok |-> ok,
     error |-> "", messages |-> <<>>]
ToSocket(ev, s, c, ok) == Emit(ev, "socket", s, c, ok)
ToRoom(ev, c) == Emit(ev, "room", 0, c, TRUE)
ToRoomExceptSender(ev, s, c) == Emit(ev, "room_except_sender", s, c, TRUE)
BroadcastExceptSender(ev, s, c) == Emit(ev, "broadcast_except_sender", s, c, TRUE)
\* socket.emit("error", { message })
Refuse(s, message) == [ToSocket("error", s, 0, FALSE) EXCEPT !.error = message]

Init ==
    /\ now = 0
    /\ nextSweep = AUTOSAVE_INTERVAL
    /\ sockSeq = 0
    /\ chatSeq = 0
    /\ msgSeq = 0
    /\ apiConfigured \in BOOLEAN
    /\ socketOrigins = <<>>
    /\ connectedAgents = <<>>
    /\ chatObj = <<>>
    /\ activeChats = {}
    /\ chatLastActivity = <<>>
    /\ chatSaveTimers = <<>>
    /\ timers = {}
    /\ procs = {}
    /\ out = {}
    /\ joined = [c \in ChatIds |-> 0]
    /\ attempts = [c \in ChatIds |-> 0]
    /\ events = 0
    /\ returned = {}

(***************************************************************************)
(* Maps.                                                                   *)
(***************************************************************************)
MapSet(m, k, v) == [x \in DOMAIN m \cup {k} |-> IF x = k THEN v ELSE m[x]]
MapDelete(m, k) == [x \in DOMAIN m \ {k} |-> m[x]]
Connected == DOMAIN socketOrigins

\* one more client event is taken off the wire
Receive ==
    /\ events < MaxEvents
    /\ events + 1 >= MaxEvents - 1 => now <= EarlyTime
    /\ events + 1 = MaxEvents => now <= LastTime
    /\ events' = events + 1

(***************************************************************************)
(* Timers.  A handle is an opaque object; a new one takes the smallest     *)
(* number no pending timer and no map entry uses.                          *)
(***************************************************************************)
MinOf(S) == CHOOSE x \in S : \A y \in S : x <= y

\* clearTimeout(handle): a handle that already fired is left alone
clearTimeout(ts, handle) == { t \in ts : t.id # handle }

NewTimerId(ts, map) ==
    LET used == { t.id : t \in ts } \cup { map[k] : k \in DOMAIN map }
    IN  MinOf((1..(Cardinality(used) + 1)) \ used)

\* scheduleAutoSave without its `!chat.agent` test
scheduleAutoSave_NoAgentTest(c, chat) ==
    IF c \notin activeChats
    THEN UNCHANGED <<timers, chatSaveTimers>>
    ELSE LET cleared == IF c \in DOMAIN chatSaveTimers
                        THEN clearTimeout(timers, chatSaveTimers[c])
                        ELSE timers
             id == NewTimerId(cleared, MapDelete(chatSaveTimers, c))
             timer == [id |-> id, chatId |-> c, due |-> now + INACTIVITY_SAVE_DELAY]
         IN  /\ timers' = cleared \cup {timer}
             /\ chatSaveTimers' = MapSet(chatSaveTimers, c, id)

\* scheduleAutoSave(chatId), with chat the object activeChats holds for it
scheduleAutoSave(c, chat) ==
    IF c \notin activeChats \/ ~Truthy(chat.agent)
    THEN UNCHANGED <<timers, chatSaveTimers>>
    ELSE LET cleared == IF c \in DOMAIN chatSaveTimers
                        THEN clearTimeout(timers, chatSaveTimers[c])
                        ELSE timers
             id == NewTimerId(cleared, MapDelete(chatSaveTimers, c))
             timer == [id |-> id, chatId |-> c, due |-> now + INACTIVITY_SAVE_DELAY]
         IN  /\ timers' = cleared \cup {timer}
             /\ chatSaveTimers' = MapSet(chatSaveTimers, c, id)

\* updateChatActivity(chatId)
updateChatActivity(c, chat) ==
    /\ chatLastActivity' = MapSet(chatLastActivity, c, now)
    /\ attempts' = [attempts EXCEPT ![c] = 0]
    /\ scheduleAutoSave(c, chat)

(***************************************************************************)
(* saveChatToDatabase(chat), up to its first await.  chatData copies the   *)
(* scalar fields and keeps a reference to chat.messages; the request body  *)
(* is serialised when fetch is called.  Without CHAT_API_URL the function  *)
(* throws into its catch block and suspends on the first import.           *)
(***************************************************************************)
NewPid == MinOf((1..(Cardinality(procs) + 1)) \ { p.pid : p \in procs })

chatDataOf(chat) ==
    [ agent_id   |-> OrElse(chat.agent, Null),
      user_id    |-> chat.userId,
      user_name  |-> chat.userName,
      status     |-> IF Truthy(chat.agent) THEN "closed" ELSE "pending" ]

\* the suspended caller: kind of handler, its socket, the chat being saved,
\* the sweep's `now` and the disconnecting agent's name
saveChatToDatabase(kind, sock, c, at, name) ==
    [ pid     |-> NewPid,
      kind    |-> kind,
      sock    |-> sock,
      chatId  |-> c,
      at      |-> at,
      name    |-> name,
      stage   |-> IF apiConfigured THEN "remote" ELSE "fallback",
      data    |-> chatDataOf(chatObj[c]),
      body    |-> IF apiConfigured THEN chatObj[c].messages ELSE <<>>,
      content |-> <<>>,
      trig    |-> chatObj[c].messages ]

CanSuspend == Cardinality(procs) < MaxProcs

(***************************************************************************)
(* Connection and the customer handlers.                                   *)
(***************************************************************************)
\* io.on("connection")
Connect(origin) ==
    /\ returned' = {}
    /\ Receive
    /\ sockSeq < MaxSockets
    /\ sockSeq' = sockSeq + 1
    /\ socketOrigins' = MapSet(socketOrigins, sockSeq + 1, origin)
    /\ out' = IF IsAgentOrigin(origin)
              THEN {ToSocket("identified_as_agent", sockSeq + 1, 0, TRUE)}
              ELSE {}
    /\ UNCHANGED <<now, nextSweep, chatSeq, msgSeq, apiConfigured, connectedAgents,
                   chatObj, activeChats, chatLastActivity, chatSaveTimers, timers,
                   procs, joined, attempts>>

\* socket.on("user_join_chat")
UserJoinChat(s) ==
    /\ returned' = {}
    /\ Receive
    /\ s \in Connected
    /\ IF IsAgentOrigin(socketOrigins[s])
       THEN /\ out' = {Refuse(s, "Agent origins cannot create user chats")}
            /\ UNCHANGED <<chatSeq, chatObj, activeChats>>
       ELSE /\ chatSeq < MaxChats
            /\ LET chatId == generateShortId(chatSeq)
                   newChat == [ userId    |-> "u",
                                userName  |-> "Al",
                                messages  |-> <<>>,
                                agent     |-> Undefined,
                                socketId  |-> s ]
               IN  /\ chatSeq' = chatId
                   /\ chatObj' = MapSet(chatObj, chatId, newChat)
                   /\ activeChats' = activeChats \cup {chatId}
                   /\ out' = { ToSocket("chat_created", s, chatId, TRUE),
                               BroadcastExceptSender("new_chat", s, chatId) }
    /\ UNCHANGED <<now, nextSweep, sockSeq, msgSeq, apiConfigured, socketOrigins,
                   connectedAgents, chatLastActivity, chatSaveTimers, timers, procs,
                   joined, attempts>>

\* chat.messages.unshift(message)
push_Unshift(chat, message) == [chat EXCEPT !.messages = <<message>> \o @]

\* chat.messages.push(message)
push(chat, message) == [chat EXCEPT !.messages = Append(@, message)]

\* user_message that opens the session it does not find
UserMessage_Upsert(s, c, sender) ==
    /\ returned' = {}
    /\ Receive
    /\ s \in Connected
    /\ msgSeq < MaxMsgs
    /\ LET message == [ id      |-> generateShortId(msgSeq),
                        content |-> "text",
                        sender  |-> OrElse(sender, "user") ]
           found == IF c \in activeChats
                    THEN chatObj[c]
                    ELSE [ userId |-> "u", userName |-> "Al", messages |-> <<>>,
                           agent |-> Undefined, socketId |-> s ]
           chat == push(found, message)
       IN  /\ msgSeq' = message.id
           /\ chatObj' = MapSet(chatObj, c, chat)
           /\ activeChats' = activeChats \cup {c}
           /\ out' = {ToRoom("new_message", c)}
           /\ IF Truthy(chat.agent)
              THEN updateChatActivity(c, chat)
              ELSE UNCHANGED <<chatLastActivity, chatSaveTimers, timers, attempts>>
    /\ UNCHANGED <<now, nextSweep, sockSeq, chatSeq, apiConfigured, socketOrigins,
                   connectedAgents, procs, joined>>

\* socket.on("user_message")
UserMessage(s, c, sender) ==
    /\ returned' = {}
    /\ Receive
    /\ s \in Connected
    /\ IF c \notin activeChats
       THEN /\ out' = {}
            /\ UNCHANGED <<msgSeq, chatObj, chatLastActivity, chatSaveTimers, timers,
                           attempts>>
       ELSE /\ msgSeq < MaxMsgs
            /\ LET message == [ id         |-> generateShortId(msgSeq),
                                content    |-> "text",
                                sender     |-> OrElse(sender, "user") ]
                   chat == push(chatObj[c], message)
               IN  /\ msgSeq' = message.id
                   /\ chatObj' = [chatObj EXCEPT ![c] = chat]
                   /\ out' = {ToRoom("new_message", c)}
                   /\ IF Truthy(chat.agent)
                      THEN updateChatActivity(c, chat)
                      ELSE UNCHANGED <<chatLastActivity, chatSaveTimers, timers, attempts>>
    /\ UNCHANGED <<now, nextSweep, sockSeq, chatSeq, apiConfigured, socketOrigins,
                   connectedAgents, activeChats, procs, joined>>

(***************************************************************************)
(* The agent handlers.                                                     *)
(***************************************************************************)
\* socket.on("join_as_agent")
JoinAsAgent(s, agentName) ==
    /\ returned' = {}
    /\ Receive
    /\ s \in Connected
    /\ LET socketOrigin == socketOrigins[s]
       IN  IF ~IsAgentOrigin(socketOrigin)
           THEN /\ out' = {Refuse(s, "Unauthorized")}
                /\ UNCHANGED connectedAgents
           ELSE /\ connectedAgents' =
                      MapSet(connectedAgents, s,
                             [agentId |-> "a", agentName |-> agentName, origin |-> socketOrigin])
                /\ out' = {ToSocket("active_chats", s, 0, TRUE)}
    /\ UNCHANGED <<now, nextSweep, sockSeq, chatSeq, msgSeq, apiConfigured, socketOrigins,
                   chatObj, activeChats, chatLastActivity, chatSaveTimers, timers, procs,
                   joined, attempts>>

\* socket.on("message_from_agent")
MessageFromAgent(s, c, agentName) ==
    /\ returned' = {}
    /\ Receive
    /\ s \in Connected
    /\ IF c \notin activeChats
       THEN /\ out' = {}
            /\ UNCHANGED <<msgSeq, chatObj, chatLastActivity, chatSaveTimers, timers,
                           attempts, joined>>
       ELSE /\ msgSeq < MaxMsgs
            /\ LET messageData == [ id         |-> generateShortId(msgSeq),
                                    content    |-> "text",
                                    sender     |-> "agent" ]
                   pushed == push(chatObj[c], messageData)
                   assign == ~Truthy(pushed.agent)
                   chat == IF assign THEN [pushed EXCEPT !.agent = agentName] ELSE pushed
               IN  /\ msgSeq' = messageData.id
                   /\ chatObj' = [chatObj EXCEPT ![c] = chat]
                   /\ joined' = IF assign THEN [joined EXCEPT ![c] = @ + 1] ELSE joined
                   /\ out' = (IF assign THEN {ToRoomExceptSender("agent_joined", s, c)} ELSE {})
                             \cup {ToRoom("new_message", c)}
                   /\ updateChatActivity(c, chat)
    /\ UNCHANGED <<now, nextSweep, sockSeq, chatSeq, apiConfigured, socketOrigins,
                   connectedAgents, activeChats, procs>>

\* socket.on("update_user_info")
UpdateUserInfo(s, c, userName) ==
    /\ returned' = {}
    /\ Receive
    /\ s \in Connected
    /\ IF c \in activeChats
       THEN /\ chatObj' = [chatObj EXCEPT ![c].userName = OrElse(userName, @)]
            /\ out' = {BroadcastExceptSender("user_info_updated", s, c)}
       ELSE /\ out' = {}
            /\ UNCHANGED chatObj
    /\ UNCHANGED <<now, nextSweep, sockSeq, chatSeq, msgSeq, apiConfigured, socketOrigins,
                   connectedAgents, activeChats, chatLastActivity, chatSaveTimers, timers,
                   procs, joined, attempts>>

\* messages.findIndex((m) => m.id === lastMessageId), counted from 1; 0 when absent
findIndex(messages, id) ==
    IF \E i \in 1..Len(messages) : messages[i].id = id
    THEN MinOf({ i \in 1..Len(messages) : messages[i].id = id })
    ELSE 0

\* the replay that starts at the last-seen message: chat.messages.slice(lastIndex)
missedMessages_FromLastSeen(messages, lastMessageId) ==
    LET lastIndex == findIndex(messages, lastMessageId)
    IN  IF lastIndex >= 1 THEN SubSeq(messages, lastIndex, Len(messages)) ELSE <<>>

\* lastIndex >= 0 ? chat.messages.slice(lastIndex + 1) : []
missedMessages(messages, lastMessageId) ==
    LET lastIndex == findIndex(messages, lastMessageId)
    IN  IF lastIndex >= 1 THEN SubSeq(messages, lastIndex + 1, Len(messages)) ELSE <<>>

\* socket.on("request_missed_messages")
RequestMissedMessages(s, c, lastMessageId) ==
    /\ returned' = {}
    /\ Receive
    /\ s \in Connected
    /\ out' = IF c \in activeChats
              THEN {[ToSocket("missed_messages", s, c, TRUE) EXCEPT
                        !.messages = missedMessages(chatObj[c].messages, lastMessageId)]}
              ELSE {}
    /\ UNCHANGED <<now, nextSweep, sockSeq, chatSeq, msgSeq, apiConfigured, socketOrigins,
                   connectedAgents, chatObj, activeChats, chatLastActivity,
                   chatSaveTimers, timers, procs, joined, attempts>>

\* socket.on("save_chat"), up to the await
SaveChat(s, c) ==
    /\ returned' = {}
    /\ Receive
    /\ s \in Connected
    /\ IF c \in activeChats
       THEN /\ CanSuspend
            /\ procs' = procs \cup {saveChatToDatabase("save_chat", s, c, 0, Undefined)}
            /\ out' = {}
       ELSE /\ out' = {[ToSocket("chat_saved", s, c, FALSE) EXCEPT
                           !.error = "Chat not found"]}
            /\ UNCHANGED procs
    /\ UNCHANGED <<now, nextSweep, sockSeq, chatSeq, msgSeq, apiConfigured, socketOrigins,
                   connectedAgents, chatObj, activeChats, chatLastActivity,
                   chatSaveTimers, timers, joined, attempts>>

\* socket.on("close_chat"), up to the await
CloseChat(s, c) ==
    /\ returned' = {}
    /\ Receive
    /\ s \in Connected
    /\ IF c \in activeChats
       THEN /\ CanSuspend
            /\ procs' = procs \cup {saveChatToDatabase("close_chat", s, c, 0, Undefined)}
       ELSE UNCHANGED procs
    /\ out' = {}
    /\ UNCHANGED <<now, nextSweep, sockSeq, chatSeq, msgSeq, apiConfigured, socketOrigins,
                   connectedAgents, chatObj, activeChats, chatLastActivity,
                   chatSaveTimers, timers, joined, attempts>>

(***************************************************************************)
(* Loops over activeChats.entries().  The Map iterates in insertion order, *)
(* which is the order of the ids, and the iterator is live: it sees what   *)
(* the Map holds when it is advanced.  A scan returns the next chat the    *)
(* loop body saves after position cur, 0 when the loop runs to its end.    *)
(***************************************************************************)
RECURSIVE sweepScan(_, _)
sweepScan(cur, at) ==
    LET rest == { k \in activeChats : k > cur }
    IN  IF rest = {} THEN 0
        ELSE LET c == MinOf(rest)
                 chat == chatObj[c]
                 lastActivity == IF c \in DOMAIN chatLastActivity
                                 THEN chatLastActivity[c] ELSE 0
                 inactiveTime == at - lastActivity
             IN  IF /\ Truthy(chat.agent)
                    /\ Len(chat.messages) > 0
                    /\ inactiveTime > AUTOSAVE_INTERVAL
                 THEN c
                 ELSE sweepScan(c, at)

RECURSIVE disconnectScan(_, _)
disconnectScan(cur, agentName) ==
    LET rest == { k \in activeChats : k > cur }
    IN  IF rest = {} THEN 0
        ELSE LET c == MinOf(rest)
                 chat == chatObj[c]
             IN  IF chat.agent = agentName /\ Len(chat.messages) > 0
                 THEN c
                 ELSE disconnectScan(c, agentName)

\* the second loop of the disconnect handler
customerDisconnected(s) ==
    { BroadcastExceptSender("customer_disconnected", s, c) :
        c \in { k \in activeChats : chatObj[k].socketId = s } }

\* a disconnect handler that also saves the sessions the leaving customer owns
Disconnect_SavesCustomerChats(s) ==
    /\ returned' = {}
    /\ Receive
    /\ s \in Connected
    /\ socketOrigins' = MapDelete(socketOrigins, s)
    /\ LET owned == { k \in activeChats :
                        chatObj[k].socketId = s /\ Len(chatObj[k].messages) > 0 }
       IN  IF owned # {}
           THEN /\ CanSuspend
                /\ procs' = procs \cup
                       {saveChatToDatabase("disconnect", s, MinOf(owned), 0, Null)}
                /\ out' = {}
           ELSE /\ out' = customerDisconnected(s)
                /\ UNCHANGED procs
    /\ connectedAgents' = MapDelete(connectedAgents, s)
    /\ UNCHANGED <<now, nextSweep, sockSeq, chatSeq, msgSeq, apiConfigured, chatObj,
                   activeChats, chatLastActivity, chatSaveTimers, timers, joined, attempts>>

\* socket.on("disconnect"), up to its first await or, without one, to its end
Disconnect(s) ==
    /\ returned' = {}
    /\ Receive
    /\ s \in Connected
    /\ socketOrigins' = MapDelete(socketOrigins, s)
    /\ IF s \in DOMAIN connectedAgents
       THEN LET agentName == connectedAgents[s].agentName
                c == disconnectScan(0, agentName)
            IN  IF c # 0
                THEN /\ CanSuspend
                     /\ procs' = procs \cup
                            {saveChatToDatabase("disconnect", s, c, 0, agentName)}
                     /\ out' = {}
                     /\ UNCHANGED connectedAgents
                ELSE /\ connectedAgents' = MapDelete(connectedAgents, s)
                     /\ out' = customerDisconnected(s)
                     /\ UNCHANGED procs
       ELSE /\ out' = customerDisconnected(s)
            /\ UNCHANGED <<connectedAgents, procs>>
    /\ UNCHANGED <<now, nextSweep, sockSeq, chatSeq, msgSeq, apiConfigured, chatObj,
                   activeChats, chatLastActivity, chatSaveTimers, timers, joined, attempts>>

(***************************************************************************)
(* The scheduler's callbacks.                                              *)
(***************************************************************************)
\* the setTimeout callback of scheduleAutoSave, up to its await or to its end
TimerFire(t) ==
    /\ returned' = {}
    /\ t \in timers
    /\ now >= t.due
    /\ timers' = timers \ {t}
    /\ out' = {}
    /\ LET c == t.chatId
       IN  IF /\ c \in activeChats
              /\ Len(chatObj[c].messages) > 0
              /\ Truthy(chatObj[c].agent)
           THEN /\ CanSuspend
                /\ procs' = procs \cup {saveChatToDatabase("timer", 0, c, 0, Undefined)}
                /\ attempts' = [attempts EXCEPT ![c] = @ + 1]
                /\ UNCHANGED chatSaveTimers
           ELSE /\ chatSaveTimers' = MapDelete(chatSaveTimers, c)
                /\ UNCHANGED <<procs, attempts>>
    /\ UNCHANGED <<now, nextSweep, sockSeq, chatSeq, msgSeq, apiConfigured, socketOrigins,
                   connectedAgents, chatObj, activeChats, chatLastActivity, joined, events>>

\* the setInterval callback, up to its first await or to its end
Sweep ==
    /\ returned' = {}
    /\ now >= nextSweep
    /\ nextSweep' = nextSweep + AUTOSAVE_INTERVAL
    /\ out' = {}
    /\ LET c == sweepScan(0, now)
       IN  IF c # 0
           THEN /\ CanSuspend
                /\ procs' = procs \cup {saveChatToDatabase("sweep", 0, c, now, Undefined)}
                /\ attempts' = [attempts EXCEPT ![c] = @ + 1]
           ELSE UNCHANGED <<procs, attempts>>
    /\ UNCHANGED <<events, now, sockSeq, chatSeq, msgSeq, apiConfigured, socketOrigins,
                   connectedAgents, chatObj, activeChats, chatLastActivity,
                   chatSaveTimers, timers, joined>>

(***************************************************************************)
(* What the caller of saveChatToDatabase does once the save has returned   *)
(* result.success = ok, up to its next await or to its end.                *)
(***************************************************************************)
Resume(p, ok) ==
    LET c == p.chatId
        rest == procs \ {p}
    IN  CASE p.kind = "timer" ->
               /\ chatSaveTimers' = MapDelete(chatSaveTimers, c)
               /\ procs' = rest
               /\ out' = {}
               /\ UNCHANGED <<connectedAgents, activeChats, chatLastActivity, timers,
                              attempts>>
          [] p.kind = "sweep" ->
               /\ chatLastActivity' = MapSet(chatLastActivity, c, p.at)
               /\ LET n == sweepScan(c, p.at)
                  IN  IF n # 0
                      THEN /\ procs' = rest \cup
                                {[saveChatToDatabase("sweep", 0, n, p.at, Undefined)
                                     EXCEPT !.pid = p.pid]}
                           /\ attempts' = [attempts EXCEPT ![n] = @ + 1]
                      ELSE /\ procs' = rest
                           /\ UNCHANGED attempts
               /\ out' = {}
               /\ UNCHANGED <<connectedAgents, activeChats, chatSaveTimers, timers>>
          [] p.kind = "save_chat" ->
               /\ procs' = rest
               /\ out' = {ToSocket("chat_saved", p.sock, c, ok)}
               /\ UNCHANGED <<connectedAgents, activeChats, chatLastActivity,
                              chatSaveTimers, timers, attempts>>
          [] p.kind = "close_chat" ->
               /\ IF c \in DOMAIN chatSaveTimers
                  THEN /\ timers' = clearTimeout(timers, chatSaveTimers[c])
                       /\ chatSaveTimers' = MapDelete(chatSaveTimers, c)
                  ELSE UNCHANGED <<timers, chatSaveTimers>>
               /\ activeChats' = activeChats \ {c}
               /\ chatLastActivity' = MapDelete(chatLastActivity, c)
               /\ procs' = rest
               /\ out' = {ToRoom("chat_closed", c)}
               /\ UNCHANGED <<connectedAgents, attempts>>
          [] p.kind = "disconnect" ->
               /\ LET n == disconnectScan(c, p.name)
                  IN  IF n # 0
                      THEN /\ procs' = rest \cup
                                {[saveChatToDatabase("disconnect", p.sock, n, 0, p.name)
                                     EXCEPT !.pid = p.pid]}
                           /\ out' = {}
                           /\ UNCHANGED connectedAgents
                      ELSE /\ procs' = rest
                           /\ connectedAgents' = MapDelete(connectedAgents, p.sock)
                           /\ out' = customerDisconnected(p.sock)
               /\ UNCHANGED <<activeChats, chatLastActivity, chatSaveTimers, timers,
                              attempts>>

Frame == UNCHANGED <<now, nextSweep, sockSeq, chatSeq, msgSeq, apiConfigured,
                     socketOrigins, chatObj, joined, events>>

(***************************************************************************)
(* saveChatToDatabase after its first await.                               *)
(***************************************************************************)
\* return { success, fallback } of the call p
Return(p, success, fallback) ==
    [pid |-> p.pid, chatId |-> p.chatId, success |-> success, fallback |-> fallback]

\* fetch resolved with response.ok and response.json() resolved
RemoteOk(p) ==
    /\ p \in procs
    /\ p.stage = "remote"
    /\ returned' = {Return(p, TRUE, FALSE)}
    /\ Resume(p, TRUE)
    /\ Frame

\* fetch rejected, or !response.ok, or response.json() rejected: into the catch
\* block, which suspends on its imports and on mkdir
RemoteFail(p) ==
    /\ p \in procs
    /\ p.stage = "remote"
    /\ procs' = (procs \ {p}) \cup {[p EXCEPT !.stage = "fallback"]}
    /\ returned' = {}
    /\ out' = {}
    /\ UNCHANGED <<connectedAgents, activeChats, chatLastActivity, chatSaveTimers,
                   timers, attempts>>
    /\ Frame

\* fs.writeFile(..., JSON.stringify(chatData, null, 2)): chatData.messages is
\* the chat's own array, serialised now
FallbackWrite(p) ==
    /\ p \in procs
    /\ p.stage = "fallback"
    /\ procs' = (procs \ {p}) \cup
           {[p EXCEPT !.stage = "write", !.content = chatObj[p.chatId].messages]}
    /\ returned' = {}
    /\ out' = {}
    /\ UNCHANGED <<connectedAgents, activeChats, chatLastActivity, chatSaveTimers,
                   timers, attempts>>
    /\ Frame

\* writeFile resolved
FallbackOk(p) ==
    /\ p \in procs
    /\ p.stage = "write"
    /\ returned' = {Return(p, TRUE, TRUE)}
    /\ Resume(p, TRUE)
    /\ Frame

\* the inner catch returning { success: true, fallback: true }
FallbackFail_ReportsSuccess(p) ==
    /\ p \in procs
    /\ p.stage \in {"fallback", "write"}
    /\ returned' = {Return(p, TRUE, TRUE)}
    /\ Resume(p, TRUE)
    /\ Frame

\* an import, mkdir or writeFile rejected
FallbackFail(p) ==
    /\ p \in procs
    /\ p.stage \in {"fallback", "write"}
    /\ returned' = {Return(p, FALSE, FALSE)}
    /\ Resume(p, FALSE)
    /\ Frame

\* time passes; a timer or the interval that is due runs first
Tick ==
    /\ returned' = {}
    /\ now < MaxTime
    /\ events >= MaxEvents - 1 => now < EarlyTime
    /\ events = MaxEvents => now < LastTime
    /\ \A t \in timers : t.due > now
    /\ nextSweep > now
    /\ now' = now + 1
    /\ out' = {}
    /\ UNCHANGED <<events, nextSweep, sockSeq, chatSeq, msgSeq, apiConfigured, socketOrigins,
                   connectedAgents, chatObj, activeChats, chatLastActivity,
                   chatSaveTimers, timers, procs, joined, attempts>>

Next ==
    \/ \E o \in Origins : Connect(o)
    \/ \E s \in Sockets : UserJoinChat(s)
    \/ \E s \in Sockets, c \in ChatIds, sender \in Senders : UserMessage(s, c, sender)
    \/ \E s \in Sockets, n \in JoinNames : JoinAsAgent(s, n)
    \/ \E s \in Sockets, c \in ChatIds, n \in AgentNames : MessageFromAgent(s, c, n)
    \/ \E s \in Sockets, c \in ChatIds, n \in UserNames : UpdateUserInfo(s, c, n)
    \/ \E s \in Sockets, c \in ChatIds, m \in 0..MaxMsgs : RequestMissedMessages(s, c, m)
    \/ \E s \in Sockets, c \in ChatIds : SaveChat(s, c)
    \/ \E s \in Sockets, c \in ChatIds : CloseChat(s, c)
    \/ \E s \in Sockets : Disconnect(s)
    \/ \E t \in timers : TimerFire(t)
    \/ Sweep
    \/ \E p \in procs : RemoteOk(p)
    \/ \E p \in procs : RemoteFail(p)
    \/ \E p \in procs : FallbackWrite(p)
    \/ \E p \in procs : FallbackOk(p)
    \/ \E p \in procs : FallbackFail(p)
    \/ Tick

Spec == Init /\ [][Next]_vars

(***************************************************************************)
(* Vocabulary of the properties.                                           *)
(***************************************************************************)
\* an origin is agent-eligible: present and starting with a configured prefix
Eligible(origin) ==
    /\ origin # <<>>
    /\ \E prefix \in AGENT_ORIGINS :
          /\ Len(prefix) <= Len(origin)
          /\ \A i \in 1..Len(prefix) : origin[i] = prefix[i]

Created == 1..chatSeq
Removed == Created \ activeChats
Registry == [c \in activeChats |-> chatObj[c]]
Emitted(ev) == \E e \in out : e.ev = ev
InFlight(c) == { p \in procs : p.chatId = c }

(***************************************************************************)
(* C1.  An agent send is accepted only from a registered AgentConnection:  *)
(* message_from_agent from a connection that is not in connectedAgents, to *)
(* an existing session, appends no message, assigns no agent, emits no     *)
(* agent_joined or new_message and arms no timer.                          *)
(***************************************************************************)
C1_AgentSendNeedsRegisteredAgent ==
    [][ \A s \in Sockets, c \in ChatIds, n \in AgentNames :
          (/\ s \notin DOMAIN connectedAgents
           /\ c \in activeChats
           /\ MessageFromAgent(s, c, n))
          => /\ UNCHANGED <<chatObj, joined, timers, chatSaveTimers>>
             /\ ~Emitted("agent_joined")'
             /\ ~Emitted("new_message")' ]_vars

(***************************************************************************)
(* C2.  A join-as-agent from a connection whose recorded origin is not     *)
(* agent-eligible is answered with an authorization error to that          *)
(* connection and changes neither the registry nor connectedAgents; so     *)
(* every entry of connectedAgents carries an agent-eligible origin, the    *)
(* one recorded for its connection.                                        *)
(***************************************************************************)
C2_AgentsHaveEligibleOrigin ==
    \A s \in DOMAIN connectedAgents :
        /\ Eligible(connectedAgents[s].origin)
        /\ s \in Connected => socketOrigins[s] = connectedAgents[s].origin

C2_RefusedJoinChangesNothing ==
    \A s \in Connected, n \in JoinNames :
        (~Eligible(socketOrigins[s]) /\ JoinAsAgent(s, n))
        => /\ out' = {Refuse(s, "Unauthorized")}
           /\ UNCHANGED <<activeChats, chatObj, connectedAgents>>

C2_UnauthorizedJoinRefused ==
    /\ []C2_AgentsHaveEligibleOrigin
    /\ [][C2_RefusedJoinChangesNothing]_vars

\* a refused join-as-agent while an agent is registered
C2_Witness ==
    /\ DOMAIN connectedAgents # {}
    /\ \E s \in Connected :
          /\ ~Eligible(socketOrigins[s])
          /\ out = {Refuse(s, "Unauthorized")}

(***************************************************************************)
(* C3.  A connection whose recorded origin is agent-eligible is refused    *)
(* both customer-only actions, user_join_chat and user_message: it gets an *)
(* error and no session is created and no message appended.                *)
(***************************************************************************)
C3_AgentOriginRefusedCustomerActions ==
    [][ \A s \in Connected :
          Eligible(socketOrigins[s]) =>
             /\ UserJoinChat(s) =>
                   /\ Emitted("error")'
                   /\ UNCHANGED <<activeChats, chatObj>>
             /\ \A c \in ChatIds, sender \in Senders :
                   UserMessage(s, c, sender) =>
                      /\ c \in activeChats => Emitted("error")'
                      /\ UNCHANGED <<activeChats, chatObj>> ]_vars

(***************************************************************************)
(* C4.  Agent assignment is idempotent: a session's agent, once assigned,  *)
(* is never changed or cleared while the session is active, and            *)
(* agent_joined is emitted at most once per session, only by the send that *)
(* performs the assignment.                                                *)
(***************************************************************************)
C4_AgentKept ==
    \A c \in activeChats \cap activeChats' :
        /\ Truthy(chatObj[c].agent) => chatObj'[c].agent = chatObj[c].agent
        /\ joined'[c] # joined[c] =>
              /\ ~Truthy(chatObj[c].agent)
              /\ Truthy(chatObj'[c].agent)

C4_AgentAssignedOnce ==
    /\ [](\A c \in ChatIds : joined[c] <= 1)
    /\ [][C4_AgentKept]_vars

(***************************************************************************)
(* C5.  A customer send, agent send, customer-info update, missed-message  *)
(* request, manual save or close that names a session id that was never    *)
(* created or is already removed leaves the registry, the last-activity    *)
(* map and the timer map as they are and creates no session; the manual    *)
(* save answers success = false.                                           *)
(***************************************************************************)
C5_OnUnknown(s, c) ==
    \/ \E sender \in Senders : UserMessage(s, c, sender)
    \/ \E n \in AgentNames : MessageFromAgent(s, c, n)
    \/ \E n \in UserNames : UpdateUserInfo(s, c, n)
    \/ \E m \in 0..MaxMsgs : RequestMissedMessages(s, c, m)
    \/ SaveChat(s, c)
    \/ CloseChat(s, c)

C5_UnknownSessionIsNoOp ==
    [][ \A s \in Sockets, c \in ChatIds \ activeChats :
          /\ C5_OnUnknown(s, c) =>
                UNCHANGED <<activeChats, chatObj, chatSeq, chatLastActivity,
                            chatSaveTimers, timers, procs>>
          /\ SaveChat(s, c) =>
                \E e \in out' : e.ev = "chat_saved" /\ e.sock = s /\ e.chat = c /\ ~e.ok ]_vars

\* a manual save that named a removed session has just been answered
C5_Witness ==
    \E c \in Removed, s \in Sockets :
        [ToSocket("chat_saved", s, c, FALSE) EXCEPT !.error = "Chat not found"] \in out

(***************************************************************************)
(* C6.  A save works on the snapshot taken when it is triggered: what it   *)
(* submits to the remote store and what it writes to the fallback file     *)
(* hold exactly the messages the session held at trigger time, so the two  *)
(* records have the same messages and a message appended while the save is *)
(* suspended is in neither.                                                *)
(***************************************************************************)
C6_SaveWritesTriggerSnapshot ==
    \A p \in procs :
        /\ p.stage = "remote" => p.body = p.trig
        /\ p.stage = "write" =>
              /\ p.content = p.trig
              /\ apiConfigured => p.content = p.body

(***************************************************************************)
(* C7.  For an agent-assigned session with messages, one inactivity        *)
(* window (the time after its last activity update) sees exactly one       *)
(* automatic persistence attempt, the timer and the sweep counted          *)
(* together: one once the inactivity delay has passed, and never a second. *)
(***************************************************************************)
C7_OneAutoSavePerWindow ==
    \A c \in activeChats :
        (Truthy(chatObj[c].agent) /\ Len(chatObj[c].messages) > 0) =>
            /\ attempts[c] <= 1
            /\ (/\ c \in DOMAIN chatLastActivity
                /\ now > chatLastActivity[c] + INACTIVITY_SAVE_DELAY) => attempts[c] >= 1

(***************************************************************************)
(* C8.  At most one persistence operation is in flight for a session id at *)
(* any moment, whatever triggered the saves.                               *)
(***************************************************************************)
C8_OneSaveInFlightPerSession ==
    \A c \in ChatIds : Cardinality(InFlight(c)) <= 1

(***************************************************************************)
(* C9.  While a session is in the registry its message sequence is the     *)
(* list of the messages its sends appended, in the order the events were   *)
(* handled: a customer or agent send to it appends exactly one message at  *)
(* the end, nothing else changes the sequence, and the ids of a session's  *)
(* messages are pairwise distinct.                                         *)
(***************************************************************************)
C9_Send(c) ==
    \E s \in Sockets :
        \/ \E sender \in Senders : UserMessage(s, c, sender)
        \/ \E n \in AgentNames : MessageFromAgent(s, c, n)

C9_DistinctIds ==
    \A c \in activeChats :
        LET ms == chatObj[c].messages
        IN  \A i, j \in 1..Len(ms) : ms[i].id = ms[j].id => i = j

C9_AppendOnly ==
    \A c \in activeChats \cap activeChats' :
        LET old == chatObj[c].messages
            new == chatObj'[c].messages
        IN  IF events' # events /\ C9_Send(c)
            THEN /\ Len(new) = Len(old) + 1
                 /\ SubSeq(new, 1, Len(old)) = old
            ELSE new = old

C10_RemovedSessionLeavesNothing ==
    \A c \in Removed :
        /\ c \notin DOMAIN chatLastActivity
        /\ \A t \in timers : t.chatId # c

(***************************************************************************)
(* C11.  Missed-message replay: for an existing session and a last-seen id *)
(* that is the id of the message at position i, the reply holds exactly    *)
(* the messages at positions i+1..end, in order (none when i is the last   *)
(* position); for an id no message of the session has, the reply is empty; *)
(* the request changes nothing of the session.                             *)
(***************************************************************************)
C11_After(ms, i) == [j \in 1..(Len(ms) - i) |-> ms[i + j]]

C11_Expected(ms, id) ==
    IF \E i \in 1..Len(ms) : ms[i].id = id
    THEN C11_After(ms, CHOOSE i \in 1..Len(ms) : ms[i].id = id)
    ELSE <<>>

C11_ReplayIsTheTail ==
    [][ \A s \in Sockets, c \in activeChats, m \in 0..MaxMsgs :
          RequestMissedMessages(s, c, m) =>
             /\ \E e \in out' :
                   /\ out' = {e}
                   /\ e.ev = "missed_messages" /\ e.scope = "socket" /\ e.sock = s
                   /\ e.chat = c
                   /\ e.messages = C11_Expected(chatObj[c].messages, m)
             /\ UNCHANGED <<activeChats, chatObj, chatLastActivity, chatSaveTimers,
                            timers, procs>> ]_vars

\* a replay after the first of two messages has just been answered with the second
C11_Witness ==
    \E e \in out, c \in activeChats :
        /\ e.ev = "missed_messages" /\ e.chat = c
        /\ Len(chatObj[c].messages) = 2
        /\ e.messages = <<chatObj[c].messages[2]>>

(***************************************************************************)
(* C12.  A session with no assigned agent is never auto-saved: no          *)
(* inactivity timer is armed for it, neither a timer expiry nor the        *)
(* periodic sweep starts a save of a session that has no agent at that     *)
(* moment, and a customer send to an unassigned session schedules no save. *)
(***************************************************************************)
\* the call p of saveChatToDatabase is made in this step
Started(p) ==
    /\ p \in procs'
    /\ \A q \in procs : q.pid # p.pid \/ q.chatId # p.chatId

C12_NoTimerForUnassigned ==
    \A c \in activeChats :
        ~Truthy(chatObj[c].agent) =>
            /\ c \notin DOMAIN chatSaveTimers
            /\ \A t \in timers : t.chatId # c

C12_AutoSaveNeedsAgent ==
    /\ \A p \in procs' :
          (Started(p) /\ p.kind \in {"timer", "sweep"}) =>
             /\ p.chatId \in activeChats
             /\ Truthy(chatObj[p.chatId].agent)
    /\ \A s \in Sockets, c \in activeChats, sender \in Senders :
          (~Truthy(chatObj[c].agent) /\ UserMessage(s, c, sender)) =>
             UNCHANGED <<timers, chatSaveTimers, procs>>

C12_UnassignedNeverAutoSaved ==
    /\ []C12_NoTimerForUnassigned
    /\ [][C12_AutoSaveNeedsAgent]_vars

\* the sweep has passed over an unassigned session that holds a customer message
C12_Witness ==
    \E c \in activeChats :
        /\ ~Truthy(chatObj[c].agent)
        /\ Len(chatObj[c].messages) > 0
        /\ now >= AUTOSAVE_INTERVAL /\ nextSweep > now
        /\ timers = {} /\ procs = {} /\ attempts[c] = 0

(***************************************************************************)
(* C13.  Every persist operation ends in one of three outcomes: the remote *)
(* write succeeded and no fallback file was written; the remote write      *)
(* failed (no configuration, network error, non-success response) and the  *)
(* fallback write succeeded, reported as success; or both failed, reported *)
(* as success = false.  The fallback write happens only after a remote     *)
(* failure and at most once per operation.                                 *)
(***************************************************************************)
\* the call p returns in this step
Ended(p) == p \in procs /\ p \notin procs' /\ returned' # {}

C13_Outcomes ==
    \A r \in returned :
        \/ r.success /\ ~r.fallback
        \/ r.success /\ r.fallback
        \/ ~r.success /\ ~r.fallback

C13_Steps ==
    /\ \A p \in procs' :
          Started(p) =>
             /\ p.stage = IF apiConfigured THEN "remote" ELSE "fallback"
             /\ p.content = <<>>
    /\ returned' # {} => \E p \in procs : Ended(p)
    /\ \A p \in procs :
          /\ Ended(p) =>
                \E r \in returned' :
                   /\ returned' = {r}
                   /\ r.pid = p.pid /\ r.chatId = p.chatId
                   /\ p.stage = "remote" =>
                         /\ apiConfigured
                         /\ r.success /\ ~r.fallback
                         /\ p.content = <<>>
                   /\ p.stage = "fallback" => ~r.success
                   /\ p.stage = "write" => (r.success <=> r.fallback)
                   /\ p.kind = "save_chat" =>
                         out' = {ToSocket("chat_saved", p.sock, p.chatId, r.success)}
          /\ (p \notin procs' /\ ~Ended(p)) =>
                \/ /\ p.stage = "remote"
                   /\ [p EXCEPT !.stage = "fallback"] \in procs'
                \/ /\ p.stage = "fallback"
                   /\ \E q \in procs' :
                         /\ q.stage = "write"
                         /\ q = [p EXCEPT !.stage = "write", !.content = q.content]

C13_PersistHasThreeOutcomes ==
    /\ []C13_Outcomes
    /\ [][C13_Steps]_vars

\* with the remote store configured, a save has just returned success from the fallback
C13_Witness ==
    /\ apiConfigured
    /\ \E r \in returned : r.success /\ r.fallback

(***************************************************************************)
(* C14.  The disconnect of a customer connection (one that owns a session) *)
(* starts no save and leaves the session, its messages, its agent, its     *)
(* timer and its last-activity time as they are, also when the session has *)
(* an agent and messages; besides dropping the origin binding it only      *)
(* emits customer_disconnected for the sessions the connection owns.       *)
(***************************************************************************)
Owned(s) == { c \in activeChats : chatObj[c].socketId = s }

C14_CustomerDisconnectOnlyNotifies ==
    [][ \A s \in Connected :
          (Owned(s) # {} /\ Disconnect(s)) =>
             /\ UNCHANGED <<activeChats, chatObj, chatLastActivity, chatSaveTimers,
                            timers, procs, connectedAgents>>
             /\ DOMAIN socketOrigins' = DOMAIN socketOrigins \ {s}
             /\ \A x \in DOMAIN socketOrigins' : socketOrigins'[x] = socketOrigins[x]
             /\ \A e \in out' : e.ev = "customer_disconnected" /\ e.chat \in Owned(s)
             /\ \A c \in Owned(s) : \E e \in out' : e.chat = c ]_vars

\* the owner of an agent-assigned session with messages and an armed timer has
\* just disconnected
C14_Witness ==
    \E c \in activeChats, e \in out :
        /\ e.ev = "customer_disconnected" /\ e.chat = c
        /\ chatObj[c].socketId \notin Connected
        /\ Truthy(chatObj[c].agent)
        /\ Len(chatObj[c].messages) > 0
        /\ c \in DOMAIN chatSaveTimers
        /\ \E t \in timers : t.chatId = c
        /\ procs = {}

(***************************************************************************)
(* C15.  Debounce: an activity update of an agent-assigned session cancels *)
(* the timer armed before and arms a new one, so that at every moment at   *)
(* most one inactivity timer is armed per session id and every armed timer *)
(* is the one the timer map records for its id, also when the update       *)
(* arrives while the save of an expired timer is in flight.                *)
(***************************************************************************)
C15_OneRecordedTimerPerSession ==
    /\ \A c \in ChatIds : Cardinality({ t \in timers : t.chatId = c }) <= 1
    /\ \A t \in timers :
          /\ t.chatId \in DOMAIN chatSaveTimers
          /\ chatSaveTimers[t.chatId] = t.id

(***************************************************************************)
(* C16.  The periodic sweep persists every agent-assigned session that has *)
(* a message and whose last recorded activity is more than the inactivity  *)
(* delay (the threshold of the per-session timer) ago, and persists no     *)
(* session that is unassigned, empty or active within that threshold.      *)
(***************************************************************************)
C16_Overdue(c) ==
    /\ Truthy(chatObj[c].agent)
    /\ Len(chatObj[c].messages) > 0
    /\ c \in DOMAIN chatLastActivity
    /\ now - chatLastActivity[c] > INACTIVITY_SAVE_DELAY

C16_SweepUsesInactivityDelay ==
    [][ nextSweep' # nextSweep =>
          LET overdue == { c \in activeChats : C16_Overdue(c) }
          IN  /\ overdue # {} =>
                    \E p \in procs' :
                       Started(p) /\ p.kind = "sweep" /\ p.chatId = MinOf(overdue)
              /\ overdue = {} => procs' = procs ]_vars

(***************************************************************************)
(* C17.  Every message a customer send appends has the sender role of the  *)
(* customer, whatever the payload of the event holds; only an agent send   *)
(* appends a message with the role agent.                                  *)
(***************************************************************************)
C17_CustomerSendHasCustomerRole ==
    [][ \A s \in Sockets, c \in activeChats, sender \in Senders :
          UserMessage(s, c, sender) =>
             LET ms == chatObj'[c].messages
             IN  ms[Len(ms)].sender = "user" ]_vars

(***************************************************************************)
(* C18.  When a registered agent connection disconnects, a save is started *)
(* for every session that is assigned to that agent's display name and has *)
(* a message, and for no other session; afterwards the connection's entry  *)
(* in connectedAgents and its origin binding are gone.                     *)
(***************************************************************************)
C18_AssignedTo(c, agentName) ==
    /\ c \in activeChats
    /\ Truthy(chatObj[c].agent)
    /\ chatObj[c].agent = agentName
    /\ Len(chatObj[c].messages) > 0

C18_Saves ==
    /\ \A p \in procs' :
          (Started(p) /\ p.kind = "disconnect") =>
             /\ p.sock \in DOMAIN connectedAgents
             /\ C18_AssignedTo(p.chatId, connectedAgents[p.sock].agentName)
    /\ \A s \in Connected \cap DOMAIN connectedAgents :
          s \notin DOMAIN socketOrigins' =>
             LET mine == { c \in activeChats :
                             C18_AssignedTo(c, connectedAgents[s].agentName) }
             IN  IF mine = {}
                 THEN s \notin DOMAIN connectedAgents' /\ procs' = procs
                 ELSE \E p \in procs' :
                         Started(p) /\ p.kind = "disconnect" /\ p.sock = s
                         /\ p.chatId = MinOf(mine)
    /\ \A p \in procs :
          (Ended(p) /\ p.kind = "disconnect") =>
             \/ p.sock \notin DOMAIN connectedAgents'
             \/ \E q \in procs' : Started(q) /\ q.kind = "disconnect" /\ q.sock = p.sock

C18_EntryOnlyWhileLeaving ==
    \A s \in DOMAIN connectedAgents :
        \/ s \in Connected
        \/ \E p \in procs : p.kind = "disconnect" /\ p.sock = s

C18_AgentDisconnectSavesItsSessions ==
    /\ []C18_EntryOnlyWhileLeaving
    /\ [][C18_Saves]_vars

(***************************************************************************)
(* C19.  No message is lost at close: every message a session holds when   *)
(* close_chat removes it from the registry is in the record that close     *)
(* persisted, also a message whose send was handled while the save of the  *)
(* close was suspended.                                                    *)
(***************************************************************************)
\* the messages of the record the call p has persisted when it returns r
C19_Persisted(p, r) ==
    IF ~r.success THEN <<>>
    ELSE IF r.fallback THEN p.content
    ELSE p.body

C19_CloseLosesNoMessage ==
    [][ \A c \in activeChats \ activeChats' :
          \E p \in procs, r \in returned' :
             /\ Ended(p) /\ p.kind = "close_chat" /\ p.chatId = c
             /\ LET record == C19_Persisted(p, r)
                    ms == chatObj[c].messages
                IN  \A i \in 1..Len(ms) : \E j \in 1..Len(record) : record[j] = ms[i] ]_vars

(***************************************************************************)
(* C20.  The last-activity time of a session never decreases while the     *)
(* session is active: no activity update and no stamp of the periodic      *)
(* sweep replaces it with an earlier time, also when an activity update    *)
(* happens while the sweep is suspended on the save of that session.       *)
(***************************************************************************)
C20_LastActivityNeverDecreases ==
    [][ \A c \in activeChats \cap activeChats' :
          c \in DOMAIN chatLastActivity =>
             /\ c \in DOMAIN chatLastActivity'
             /\ chatLastActivity'[c] >= chatLastActivity[c] ]_vars

====
